---- MODULE Spec2Model ----
(***************************************************************************)
(* Model of app.py: the Streamlit "Universal File to Text Converter".      *)
(*                                                                         *)
(* One script run handles at most one uploaded file: the bytes are copied  *)
(* to a named temporary file, MarkItDown converts that file, the file is   *)
(* removed, and a preview plus a download button are rendered.  The        *)
(* position of the script is kept in pc, one value per statement of the    *)
(* upload block (lines 59-87).                                             *)
(*                                                                         *)
(* Python values: None is the empty tuple and any other value v is <<v>>;  *)
(* a str is the sequence of its characters; bytes are sequences of         *)
(* numbers.                                                                *)
(***************************************************************************)
EXTENDS Integers, Sequences, FiniteSets, TLC

VARIABLES
    pc,              \* statement the script run is at
    run,             \* number of the current script run (Streamlit rerun)
    uploaded_file,   \* line 53: None or the uploaded file (name, data)
    fs,              \* the temporary directory: path -> file content
    temp_file,       \* line 63: name of the open NamedTemporaryFile, or None
    temp_file_path,  \* line 65
    text_content,    \* line 68
    convert_saw,     \* the file md.convert was called on, as it was then, or None
    result,          \* what md.convert did in this run (line 35), or None
    oracle,          \* the collaborator: inputs seen so far -> their outcome
    errors,          \* st.error messages shown in this run
    preview,         \* st.text_area value shown in this run, or None
    download,        \* st.download_button shown in this run, or None
    unhandled,       \* exception that left the script, or None
    n_created,       \* temporary files created in this run
    n_convert,       \* md.convert calls in this run
    n_removed,       \* os.remove calls in this run
    trace,           \* effects of this run, in order
    history          \* the finished runs

vars == <<pc, run, uploaded_file, fs, temp_file, temp_file_path, text_content,
          convert_saw, result, oracle, errors, preview, download, unhandled, n_created,
          n_convert, n_removed, trace, history>>

----------------------------------------------------------------------------
\* Bounds of the model.

MaxRuns == 2        \* script runs in one behaviour
MaxTempIds == 2     \* names tempfile can generate for one suffix
MaxBaseLen == 3     \* characters before the final ".ext" of a file name
MaxOver == 2        \* characters a text may have beyond the preview limit

\* Line 76: text_content[:1000].
PreviewLimit == 1000

----------------------------------------------------------------------------
\* Python values.

None == <<>>
Some(v) == <<v>>
Get(o) == o[1]

Min(a, b) == IF a <= b THEN a ELSE b

\* s[:n]
SliceTo(s, n) == SubSeq(s, 1, Min(n, Len(s)))

\* s[i:] for a 1-based i
SliceFrom(s, i) == SubSeq(s, i, Len(s))

\* s.rfind(c) as a 1-based index, 0 when c does not occur
rfind(s, c) ==
    LET hits == {i \in 1..Len(s) : s[i] = c}
    IN  IF hits = {} THEN 0 ELSE CHOOSE i \in hits : \A j \in hits : j <= i

\* str.split('.')[0] taken for the root: everything from the FIRST dot is cut.
splitextFirstDot(p) ==
    LET dots == {i \in 1..Len(p) : p[i] = "."}
        first == IF dots = {} THEN 0 ELSE CHOOSE i \in dots : \A j \in dots : i <= j
    IN  IF first > 1
        THEN <<SubSeq(p, 1, first - 1), SliceFrom(p, first)>>
        ELSE <<p, <<>> >>

\* os.path.splitext(p): <<root, ext>>.  The extension starts at the last dot
\* of the last path component, unless only dots precede it there.
splitext(p) ==
    LET sepIndex == rfind(p, "/")
        dotIndex == rfind(p, ".")
    IN  IF /\ dotIndex > sepIndex
           /\ \E k \in (sepIndex + 1)..(dotIndex - 1) : p[k] # "."
        THEN <<SubSeq(p, 1, dotIndex - 1), SliceFrom(p, dotIndex)>>
        ELSE <<p, <<>> >>

----------------------------------------------------------------------------
\* Inputs.

\* Line 55: the types the uploader accepts.
AllowedTypes ==
    { <<"d","o","c","x">>, <<"x","l","s","x">>, <<"p","p","t","x">>,
      <<"h","t","m","l">>, <<"t","x","t">>, <<"z","i","p">>,
      <<"p","d","f">>, <<"r","t","f">>, <<"m","d">> }

\* Lines 53-56: the uploader hands over a file only when the extension of
\* its name is one of the allowed types.
Accepted(name) == \E t \in AllowedTypes : splitext(name)[2] = <<".">> \o t

NameChars == {"a", "."}

Bases == UNION {[1..n -> NameChars] : n \in 0..MaxBaseLen}

\* Every file name of a bounded length the uploader accepts.
UploadNames ==
    {n \in {b \o <<".">> \o t : b \in Bases, t \in AllowedTypes} : Accepted(n)}

\* The file names used by the runs of the whole script.
SampleNames ==
    {n \in { <<"r","e","p","o","r","t",".","d","o","c","x">>,
             <<"a","r","c","h","i","v","e",".","t","a","r",".","z","i","p">> }
       : Accepted(n)}

\* The uploaded bytes used by the runs of the whole script.
SampleData == { <<80, 75>>, <<37, 80>> }

TextChars == <<"x", "y", "z">>

\* A text of n characters; k varies the characters.
MkText(n, k) == [i \in 1..n |-> TextChars[((i * k) % 3) + 1]]

TextLens == {0, 1} \cup ((PreviewLimit - 1)..(PreviewLimit + MaxOver))

Texts == {MkText(n, k) : n \in TextLens, k \in 1..2}

SampleTexts == {MkText(n, 1) : n \in {0, 1, PreviewLimit + 1}}

\* Messages of the exceptions md.convert raises.
ExceptionMessages == { <<"File", "conversion", "failed">> }

\* What md.convert(path) does: it returns a result or it raises.
Returned(t) == [raised |-> FALSE, text |-> t, exc |-> <<>>]
Raised(e) == [raised |-> TRUE, text |-> <<>>, exc |-> e]

Outcomes(texts) == {Returned(t) : t \in texts} \cup {Raised(e) : e \in ExceptionMessages}

----------------------------------------------------------------------------
\* The statements of the script.

\* uploaded_file.read() of a stream an earlier run has read to its end.
ReadUploadExhausted(f) ==
    IF \E h \in history : h.name = f.name /\ h.data = f.data THEN <<>> ELSE f.data

\* Line 64: uploaded_file.read()
ReadUpload(f) == f.data

\* Line 63: suffix=os.path.splitext(uploaded_file.name)[1]
TempSuffix(name) == splitext(name)[2]

\* Line 63: NamedTemporaryFile picks a name no existing file has.
FreshPaths(suffix) == {p \in {<<id, suffix>> : id \in 1..MaxTempIds} : p \notin DOMAIN fs}

\* Line 35: the collaborator sees the file's content and the path's suffix.
ConvertInput(path) == <<fs[path], path[2]>>

\* Line 41: f"Error converting file: {e}"
ErrorMessage(e) == <<"Error converting file: ">> \o e

\* An except branch that returns the message instead of None.
ConvertReturnMessage(o) == IF o.raised THEN Some(ErrorMessage(o.exc)) ELSE Some(o.text)

\* Lines 38 and 42: what convert_file_to_text returns.
ConvertReturn(o) == IF o.raised THEN None ELSE Some(o.text)

\* An os.remove that runs only when the conversion gave a text.
FsAfterRemoveOnSuccess(path) ==
    IF text_content = None THEN fs ELSE [p \in DOMAIN fs \ {path} |-> fs[p]]

\* Line 71: os.remove(temp_file_path)
FsAfterRemove(path) == [p \in DOMAIN fs \ {path} |-> fs[p]]

\* A test for None alone.
IsNotNone(v) == v # None

\* Line 73: if text_content
Truthy(v) == v # None /\ Len(Get(v)) > 0

\* A slice one character short.
PreviewTextShort(text) == SliceTo(text, PreviewLimit - 1)

\* Line 76: text_content[:1000]
PreviewText(text) == SliceTo(text, PreviewLimit)

\* Line 80: os.path.splitext(uploaded_file.name)[0] + ".txt"
OutputFilenameFirstDot(name) == splitextFirstDot(name)[1] \o <<".", "t", "x", "t">>

OutputFilename(name) == splitext(name)[1] \o <<".", "t", "x", "t">>

\* The preview handed to the download button.
DownloadDataPreview(text) == SliceTo(text, PreviewLimit)

\* Line 83: data=text_content
DownloadData(text) == text

\* A script that renders while the temporary file is still there.
PcAfterConvertRender == "render"

\* Lines 68-71: os.remove follows convert_file_to_text.
PcAfterConvert == "remove"

----------------------------------------------------------------------------
\* The state of a script run before line 53.

FreshRun ==
    /\ pc = "idle"
    /\ uploaded_file = None
    /\ temp_file = None
    /\ temp_file_path = None
    /\ text_content = None
    /\ convert_saw = None
    /\ result = None
    /\ errors = <<>>
    /\ preview = None
    /\ download = None
    /\ unhandled = None
    /\ n_created = 0
    /\ n_convert = 0
    /\ n_removed = 0
    /\ trace = <<>>

Init ==
    /\ FreshRun
    /\ run = 1
    /\ fs = <<>>
    /\ oracle = <<>>
    /\ history = {}

\* Lines 53 and 59 with no file in the uploader: the script ends.
RunIdle ==
    /\ pc = "idle"
    /\ pc' = "done"
    /\ UNCHANGED <<run, uploaded_file, fs, temp_file, temp_file_path,
                   text_content, convert_saw, result, oracle, errors, preview, download,
                   unhandled, n_created, n_convert, n_removed, trace, history>>

\* Lines 53 and 59: the uploader returns a file.
Upload(name, data) ==
    /\ pc = "idle"
    /\ Accepted(name)
    /\ uploaded_file' = Some([name |-> name, data |-> data])
    /\ pc' = "create"
    /\ UNCHANGED <<run, fs, temp_file, temp_file_path, text_content, convert_saw, result,
                   oracle, errors, preview, download, unhandled, n_created,
                   n_convert, n_removed, trace, history>>

\* Line 63: the temporary file is created, empty, under a new name.
CreateTemp ==
    /\ pc = "create"
    /\ \E p \in FreshPaths(TempSuffix(Get(uploaded_file).name)) :
          /\ temp_file' = Some(p)
          /\ fs' = (p :> <<>>) @@ fs
    /\ n_created' = n_created + 1
    /\ trace' = Append(trace, "create")
    /\ pc' = "write"
    /\ UNCHANGED <<run, uploaded_file, temp_file_path, text_content, convert_saw, result,
                   oracle, errors, preview, download, unhandled, n_convert,
                   n_removed, history>>

\* Lines 64-65: the bytes are written, the file is closed, its name is kept.
WriteTemp ==
    /\ pc = "write"
    /\ fs' = [fs EXCEPT ![Get(temp_file)] = ReadUpload(Get(uploaded_file))]
    /\ temp_file_path' = temp_file
    /\ trace' = Append(trace, "write")
    /\ pc' = "convert"
    /\ UNCHANGED <<run, uploaded_file, temp_file, text_content, convert_saw, result, oracle,
                   errors, preview, download, unhandled, n_created, n_convert,
                   n_removed, history>>

\* Line 64: write raises (the disk is full).  The with block closes the file,
\* which delete=False keeps, and the exception leaves the script.
WriteFail ==
    /\ pc = "write"
    /\ \E k \in 0..(Len(ReadUpload(Get(uploaded_file))) - 1) :
          fs' = [fs EXCEPT ![Get(temp_file)] =
                    SubSeq(ReadUpload(Get(uploaded_file)), 1, k)]
    /\ unhandled' = Some("OSError")
    /\ trace' = Append(trace, "write failed")
    /\ pc' = "crashed"
    /\ UNCHANGED <<run, uploaded_file, temp_file, temp_file_path, text_content,
                   convert_saw, result, oracle, errors, preview, download, n_created,
                   n_convert, n_removed, history>>

\* Line 68, lines 29-42: convert_file_to_text(temp_file_path).  md.convert
\* raises when there is no file at the path.  The collaborator is
\* deterministic: an input it has seen has the same outcome.
Convert ==
    /\ pc = "convert"
    /\ LET path == Get(temp_file_path)
           exists == path \in DOMAIN fs
           in == IF exists THEN ConvertInput(path) ELSE <<>>
           outcomes == IF ~exists THEN {Raised(<<"No", "such", "file">>)}
                       ELSE IF in \in DOMAIN oracle THEN {oracle[in]}
                       ELSE Outcomes(SampleTexts)
       IN  \E o \in outcomes :
              /\ oracle' = IF exists THEN (in :> o) @@ oracle ELSE oracle
              /\ convert_saw' = Some([exists |-> exists,
                                      content |-> IF exists THEN fs[path] ELSE <<>>])
              /\ result' = Some(o)
              /\ text_content' = ConvertReturn(o)
              /\ errors' = IF o.raised THEN Append(errors, ErrorMessage(o.exc))
                                       ELSE errors
              /\ trace' = IF o.raised THEN trace \o <<"convert", "st.error">>
                                      ELSE Append(trace, "convert")
    /\ n_convert' = n_convert + 1
    /\ pc' = PcAfterConvert
    /\ UNCHANGED <<run, uploaded_file, fs, temp_file, temp_file_path, preview,
                   download, unhandled, n_created, n_removed, history>>

\* Line 71: os.remove(temp_file_path)
Remove ==
    /\ pc = "remove"
    /\ fs' = FsAfterRemove(Get(temp_file_path))
    /\ n_removed' = n_removed + 1
    /\ trace' = Append(trace, "remove")
    /\ pc' = "render"
    /\ UNCHANGED <<run, uploaded_file, temp_file, temp_file_path, text_content,
                   convert_saw, result, oracle, errors, preview, download, unhandled,
                   n_created, n_convert, history>>

\* Lines 73-87: the preview and the download button, when there is a text.
Render ==
    /\ pc = "render"
    /\ IF Truthy(text_content)
       THEN /\ preview' = Some(PreviewText(Get(text_content)))
            /\ download' =
                  Some([data |-> DownloadData(Get(text_content)),
                        file_name |-> OutputFilename(Get(uploaded_file).name),
                        mime |-> "text/plain"])
            /\ trace' = trace \o <<"st.text_area", "st.download_button">>
       ELSE UNCHANGED <<preview, download, trace>>
    /\ pc' = "done"
    /\ UNCHANGED <<run, uploaded_file, fs, temp_file, temp_file_path,
                   text_content, convert_saw, result, oracle, errors, unhandled, n_created,
                   n_convert, n_removed, history>>

\* What a run that handled an upload leaves behind for the comparison of runs.
Finished ==
    [name |-> Get(uploaded_file).name, data |-> Get(uploaded_file).data,
     path |-> temp_file, converted |-> result # None,
     text_content |-> text_content, preview |-> preview, download |-> download]

\* Streamlit runs the script again: a new run starts from line 10.  The
\* temporary directory is the one thing the runs share.
Rerun ==
    /\ pc \in {"done", "crashed"}
    /\ run < MaxRuns
    /\ run' = run + 1
    /\ history' = IF uploaded_file = None THEN history ELSE history \cup {Finished}
    /\ pc' = "idle"
    /\ uploaded_file' = None
    /\ temp_file' = None
    /\ temp_file_path' = None
    /\ text_content' = None
    /\ convert_saw' = None
    /\ result' = None
    /\ errors' = <<>>
    /\ preview' = None
    /\ download' = None
    /\ unhandled' = None
    /\ n_created' = 0
    /\ n_convert' = 0
    /\ n_removed' = 0
    /\ trace' = <<>>
    /\ UNCHANGED <<fs, oracle>>

Next ==
    \/ RunIdle
    \/ \E name \in SampleNames, data \in SampleData : Upload(name, data)
    \/ CreateTemp
    \/ WriteTemp
    \/ WriteFail
    \/ Convert
    \/ Remove
    \/ Render
    \/ Rerun

Spec == Init /\ [][Next]_vars

----------------------------------------------------------------------------
\* Lines 73-87 alone, over every accepted file name and every text: the run
\* stands at line 73, the conversion of the upload done and its file removed.

InitRender ==
    \E name \in UploadNames, data \in SampleData, o \in Outcomes(Texts) :
       /\ pc = "render"
       /\ run = 1
       /\ uploaded_file = Some([name |-> name, data |-> data])
       /\ fs = <<>>
       /\ temp_file = Some(<<1, TempSuffix(name)>>)
       /\ temp_file_path = temp_file
       /\ text_content = ConvertReturn(o)
       /\ convert_saw = Some([exists |-> TRUE, content |-> data])
       /\ result = Some(o)
       /\ oracle = (<<data, TempSuffix(name)>> :> o)
       /\ errors = IF o.raised THEN <<ErrorMessage(o.exc)>> ELSE <<>>
       /\ preview = None
       /\ download = None
       /\ unhandled = None
       /\ n_created = 1
       /\ n_convert = 1
       /\ n_removed = 1
       /\ trace = IF o.raised
                  THEN <<"create", "write", "convert", "st.error", "remove">>
                  ELSE <<"create", "write", "convert", "remove">>
       /\ history = {}

NextRender == Render

SpecRender == InitRender /\ [][NextRender]_vars

----------------------------------------------------------------------------
\* Properties.

UploadName == Get(uploaded_file).name
UploadData == Get(uploaded_file).data

ConvertRaised == result # None /\ Get(result).raised
ConvertReturned == result # None /\ ~Get(result).raised

TempFileExists == temp_file # None /\ Get(temp_file) \in DOMAIN fs

\* s occurs in t as a run of consecutive elements
Contains(t, s) == \E i \in 0..(Len(t) - Len(s)) : SubSeq(t, i + 1, i + Len(s)) = s

\* every a of the trace comes before every b of the trace
Before(a, b) ==
    \A i, j \in 1..Len(trace) : trace[i] = a /\ trace[j] = b => i < j

\* C1: when the bytes were written and the conversion returned a text or
\* raised, no file is left at the temporary path once the run has ended.
C1_TempFileRemoved ==
    pc = "done" /\ temp_file_path # None /\ result # None
        => Get(temp_file_path) \notin DOMAIN fs

\* A run ended after a conversion that raised, and the file is gone.
C1_Witness ==
    pc = "done" /\ temp_file_path # None /\ ConvertRaised /\ ~TempFileExists

\* C2: whenever a temporary file was created for a run, it no longer exists
\* once the run has ended, whichever way the run ended.
C2_NoOrphan ==
    pc \in {"done", "crashed"} /\ temp_file # None => ~TempFileExists

\* C3: when md.convert raises, no exception leaves the script, exactly one
\* error message is shown and it contains the exception's message, and
\* neither the preview nor the download button is shown.
C3_ConvertErrorHandled ==
    ConvertRaised =>
        /\ pc # "crashed"
        /\ unhandled = None
        /\ Len(errors) = 1
        /\ Contains(errors[1], Get(result).exc)
        /\ preview = None
        /\ download = None

\* A run ended after md.convert raised.
C3_Witness == pc = "done" /\ ConvertRaised /\ Len(errors) = 1

C5_PreviewTruncation ==
    preview # None =>
        LET t == Get(text_content)
            p == Get(preview)
        IN  /\ Len(t) <= 1000 => p = t
            /\ Len(t) > 1000 =>
                  /\ Len(p) = 1000
                  /\ \A i \in 1..1000 : p[i] = t[i]

\* A preview of a text of more than 1000 characters is shown.
C5_Witness ==
    pc = "done" /\ preview # None /\ Len(Get(text_content)) > 1000

\* C6: the download's file name is the uploaded name up to its last dot,
\* followed by ".txt"; dots before the last one are kept.
C6_FilenameDerivation ==
    download # None =>
        LET n == UploadName
        IN  \E k \in 1..Len(n) :
               /\ n[k] = "."
               /\ \A j \in (k + 1)..Len(n) : n[j] # "."
               /\ Get(download).file_name =
                     SubSeq(n, 1, k - 1) \o <<".", "t", "x", "t">>

\* A download is shown for a name with a dot before its extension's dot.
C6_Witness ==
    /\ download # None
    /\ Cardinality({i \in 1..Len(UploadName) : UploadName[i] = "."}) >= 2
    /\ Cardinality({i \in 1..Len(Get(download).file_name) :
                       Get(download).file_name[i] = "."}) >= 2

\* C7: a download button carries the whole text md.convert returned,
\* whatever its length, and the type text/plain.
C7_DownloadFullText ==
    download # None =>
        /\ ConvertReturned
        /\ Get(download).data = Get(result).text
        /\ Get(download).mime = "text/plain"

\* A download of a text longer than its preview is shown.
C7_Witness ==
    /\ download # None
    /\ preview # None
    /\ Len(Get(download).data) > PreviewLimit
    /\ Len(Get(preview)) = PreviewLimit

\* C8: a run with an upload calls md.convert exactly once and creates and
\* removes exactly one temporary file; a run without an upload creates no
\* file and converts nothing.
C8_ExactlyOnce ==
    pc \in {"done", "crashed"} =>
        IF uploaded_file # None
        THEN n_convert = 1 /\ n_created = 1 /\ n_removed = 1
        ELSE n_convert = 0 /\ n_created = 0 /\ n_removed = 0

\* C9: two runs given the same bytes under the same name end with the same
\* text, the same preview and the same download, whatever the names of their
\* temporary files.
C9_SameUploadSameText ==
    \A h \in history :
        uploaded_file # None /\ h.name = UploadName /\ h.data = UploadData
          /\ h.converted /\ result # None
        => /\ text_content = h.text_content
           /\ pc = "done" => preview = h.preview /\ download = h.download

\* A second run of the same upload ended with a download, its temporary
\* file named differently from the first run's.
C9_Witness ==
    \E h \in history :
        /\ pc = "done" /\ uploaded_file # None
        /\ h.name = UploadName /\ h.data = UploadData
        /\ h.converted /\ h.path # temp_file
        /\ download # None

\* C10 as stated: the steps of a run come in the order write, convert,
\* remove, effects on the page; the file is gone before the preview, the
\* download button or the error message is shown; md.convert is called on a
\* file that exists and holds all the uploaded bytes.
C10_RemoveBeforeEveryEffect ==
    /\ Before("write", "convert")
    /\ Before("convert", "remove")
    /\ Before("remove", "st.text_area")
    /\ Before("remove", "st.download_button")
    /\ Before("remove", "st.error")
    /\ errors # <<>> \/ preview # None \/ download # None => ~TempFileExists
    /\ convert_saw # None =>
          Get(convert_saw).exists /\ Get(convert_saw).content = UploadData

\* C10 as amended: the steps of a run come in the order write, convert,
\* error message (when md.convert raises), remove, preview and download
\* button; the file is gone before the preview or the download button is
\* shown, and is still there when the error message is shown; md.convert is
\* called on a file that exists and holds all the uploaded bytes.
C10_RemoveBeforePreview ==
    /\ Before("write", "convert")
    /\ Before("convert", "st.error")
    /\ Before("st.error", "remove")
    /\ Before("convert", "remove")
    /\ Before("remove", "st.text_area")
    /\ Before("remove", "st.download_button")
    /\ preview # None \/ download # None => ~TempFileExists
    /\ pc = "remove" /\ errors # <<>> => TempFileExists
    /\ convert_saw # None =>
          Get(convert_saw).exists /\ Get(convert_saw).content = UploadData

\* A run ended with a preview and a download, its file removed before them.
C10_Witness ==
    /\ pc = "done"
    /\ download # None
    /\ trace = <<"create", "write", "convert", "remove",
                 "st.text_area", "st.download_button">>

====
